---- MODULE Spec2Model ----
\* One-way folder synchronization (sync.py): the reconciliation pass
\* synchronize_folders, the logger log_and_print_actions and the scheduling
\* loop synchronization_loop, over an abstract filesystem.
EXTENDS Integers, Sequences, FiniteSets, TLC

\* ---------------------------------------------------------------- bounds
\* Largest number of entries of the source tree and of the destination tree
\* at start-up (this also bounds the depth of the initial trees).
MaxEntries == 2
\* Number of passes the scheduling loop is followed for.
MaxPasses == 2

\* ------------------------------------------------------------ filesystem
\* A file name is a sequence of characters, a relative path a sequence of
\* names, a tree a function from a prefix-closed set of relative paths to
\* "dir" or to the content (bytes and metadata) of a regular file.
Names == { <<"a">>, <<"b">>, <<".", "h">> }
\* The files of the source start with one content, those of the destination
\* with another: a file the trees share is stale before the first pass and
\* up to date before the second.
SrcContents == { "new" }
DstContents == { "old" }
Root == << >>
EmptyTree == << >>

Parent(p) == SubSeq(p, 1, Len(p) - 1)
Last(p) == p[Len(p)]
IsPrefix(q, p) == Len(q) <= Len(p) /\ SubSeq(p, 1, Len(q)) = q
IsProperPrefix(q, p) == Len(q) < Len(p) /\ IsPrefix(q, p)
Prefixes(p) == { SubSeq(p, 1, n) : n \in 1..Len(p) }

Exists(t, p) == p = Root \/ p \in DOMAIN t
IsDir(t, p) == p = Root \/ (p \in DOMAIN t /\ t[p] = "dir")
Children(t, p) == { q \in DOMAIN t : Len(q) = Len(p) + 1 /\ IsPrefix(p, q) }
Descendants(t, p) == { q \in DOMAIN t : IsProperPrefix(p, q) }

\* The places where tree t can take one more entry.
FreeSlots(t) ==
    { q \o << nm >> : q \in { Root } \cup { d \in DOMAIN t : t[d] = "dir" },
                      nm \in Names } \ DOMAIN t

\* The trees of at most n entries, the files of content in C: every entry
\* lies in the root or in a directory of the tree.
RECURSIVE TreesUpTo(_, _)
TreesUpTo(n, C) ==
    IF n = 0 THEN { EmptyTree }
    ELSE LET T == TreesUpTo(n - 1, C)
         IN  T \cup UNION { { t @@ (p :> e) : p \in FreeSlots(t), e \in { "dir" } \cup C } :
                            t \in T }

\* ------------------------------------------------------ os / shutil / glob
\* The outcome of a filesystem operation: the tree it leaves and "ok" or the
\* error it raises.
Ok(t) == [t |-> t, err |-> "ok"]
Fail(t, e) == [t |-> t, err |-> e]

\* An ancestor of p that exists in t and is a regular file.
FileAbove(t, p) == \E q \in Prefixes(p) : q # p /\ q \in DOMAIN t /\ t[q] # "dir"

\* Mutant of Makedirs: with exist_ok an existing regular file is accepted too.
MakedirsLenient(t, p, exist_ok) ==
    IF p \in DOMAIN t
    THEN IF exist_ok THEN Ok(t) ELSE Fail(t, "FileExistsError")
    ELSE IF FileAbove(t, p) THEN Fail(t, "NotADirectoryError")
    ELSE Ok(t @@ [q \in Prefixes(p) \ DOMAIN t |-> "dir"])

\* os.makedirs(p, exist_ok): creates p and its missing ancestors.
Makedirs(t, p, exist_ok) ==
    IF p \in DOMAIN t
    THEN IF exist_ok /\ t[p] = "dir" THEN Ok(t) ELSE Fail(t, "FileExistsError")
    ELSE IF FileAbove(t, p) THEN Fail(t, "NotADirectoryError")
    ELSE Ok(t @@ [q \in Prefixes(p) \ DOMAIN t |-> "dir"])

\* Where shutil.copy2 writes: inside p when p is an existing directory.
Copy2Target(t, p) == IF p \in DOMAIN t /\ t[p] = "dir" THEN p \o << Last(p) >> ELSE p

\* shutil.copy2 of a regular file of content c (whose base name is the last
\* name of p) to the path p.
Copy2(c, t, p) ==
    LET target == Copy2Target(t, p)
    IN  IF target \in DOMAIN t /\ t[target] = "dir" THEN Fail(t, "IsADirectoryError")
        ELSE IF FileAbove(t, target) THEN Fail(t, "NotADirectoryError")
        ELSE IF ~Exists(t, Parent(target)) THEN Fail(t, "FileNotFoundError")
        ELSE Ok([q \in DOMAIN t \cup { target } |-> IF q = target THEN c ELSE t[q]])

\* shutil.copytree(s/p, t/p, dirs_exist_ok = True), entry by entry: a failing
\* entry is recorded and skipped with what lies beneath it, the entries
\* beside it are still copied. todo holds the source entries not yet visited.
RECURSIVE CopytreeFrom(_, _, _, _)
CopytreeFrom(s, t, failed, todo) ==
    IF todo = {} THEN [t |-> t, failed |-> failed]
    ELSE LET q == CHOOSE x \in todo : \A y \in todo : Len(x) <= Len(y)
             r == IF \E f \in failed : IsProperPrefix(f, q) THEN Ok(t)
                  ELSE IF s[q] = "dir" THEN Makedirs(t, q, TRUE)
                  ELSE Copy2(s[q], t, q)
         IN  CopytreeFrom(s, r.t,
                          IF r.err = "ok" THEN failed ELSE failed \cup { q },
                          todo \ { q })

Copytree(s, t, p) ==
    LET r == CopytreeFrom(s, t, {}, { p } \cup Descendants(s, p))
    IN  IF r.failed = {} THEN Ok(r.t)
        ELSE IF p \in r.failed THEN Fail(r.t, "FileExistsError")
        ELSE Fail(r.t, "Error")

Without(t, p) == [q \in DOMAIN t \ { p } |-> t[q]]

\* os.remove(p)
Remove(t, p) ==
    IF p \notin DOMAIN t THEN Fail(t, "FileNotFoundError")
    ELSE IF t[p] = "dir" THEN Fail(t, "IsADirectoryError")
    ELSE Ok(Without(t, p))

\* os.rmdir(p)
Rmdir(t, p) ==
    IF p \notin DOMAIN t THEN Fail(t, "FileNotFoundError")
    ELSE IF t[p] # "dir" THEN Fail(t, "NotADirectoryError")
    ELSE IF Children(t, p) # {} THEN Fail(t, "OSError")
    ELSE Ok(Without(t, p))

\* A name starting with a dot is hidden.
IsHidden(nm) == nm[1] = "."
Visible(p) == \A i \in 1..Len(p) : ~IsHidden(p[i])

\* Mutant of Glob: hidden entries listed too.
GlobAll(t) == { Root } \cup DOMAIN t

\* glob(root/**, recursive = True): "**" neither lists a hidden entry nor
\* descends into a hidden directory. The first match is the root.
Glob(t) == { Root } \cup { p \in DOMAIN t : Visible(p) }

\* glob(...)[1:] made relative: the relative paths of a tree without the root.
Enumerate(t) == Glob(t) \ { Root }

\* len(Path(fp).parents)
Depth(p) == Len(p)

\* list(set): the elements of a set in some order.
RECURSIVE Lists(_)
Lists(X) ==
    IF X = {} THEN { << >> }
    ELSE UNION { { << x >> \o l : l \in Lists(X \ { x }) } : x \in X }

Range(l) == { l[i] : i \in 1..Len(l) }
MaxDepth(l) == IF l = << >> THEN 0
               ELSE CHOOSE d \in { Depth(x) : x \in Range(l) } :
                      \A x \in Range(l) : Depth(x) <= d
AtDepth(l, d) == LET Test(x) == Depth(x) = d IN SelectSeq(l, Test)

\* Mutant of SortedAscending: the list left as it came.
Unsorted(l) == l

\* sorted(l, key = depth): stable, ascending.
RECURSIVE AscendingFrom(_, _)
AscendingFrom(l, d) ==
    IF d > MaxDepth(l) THEN << >> ELSE AtDepth(l, d) \o AscendingFrom(l, d + 1)
SortedAscending(l) == AscendingFrom(l, 1)

\* sorted(l, reverse = True, key = depth): stable, descending.
RECURSIVE DescendingFrom(_, _)
DescendingFrom(l, d) ==
    IF d < 1 THEN << >> ELSE AtDepth(l, d) \o DescendingFrom(l, d - 1)
SortedDescending(l) == DescendingFrom(l, MaxDepth(l))

\* Mutant of TopLevel: the copied paths of every depth.
AllDepths(l) == l

\* (fp for fp in copied if len(Path(fp).parents) == 1)
TopLevel(l) == AtDepth(l, 1)

\* ----------------------------------------------------------------- state
VARIABLES
    src,        \* the tree under original_path
    dst,        \* the tree under synchronized_path
    pc,         \* where the process is: "main", "start", "create", "copy",
                \*   "remove", "log", "append", "sleep", "exited" (usage error)
                \*   or "crashed" (unhandled exception)
    pass,       \* number of passes started; also the clock read by now()
    S,          \* set_original_content
    D,          \* set_synchronized_content
    actions,    \* the dictionary returned by synchronize_folders
    todo,       \* what the running for-loop has still to visit
    err,        \* the exception that ended the process, "none" while it runs
    raised_at,  \* the loop that raised it: "create", "copy", "remove", or "none"
    log,        \* the lines of sync_log.txt
    stdout,     \* the lines printed since the running pass started
    dst0,       \* the destination tree as the running pass found it
    args        \* the command line: which of the three paths exist, and
                \*   whether the interval reads as an integer

vars == << src, dst, pc, pass, S, D, actions, todo, err, raised_at, log, stdout, dst0, args >>

NoActions == [created |-> << >>, removed |-> << >>, copied |-> << >>]

\* What an earlier run of the program may have left in sync_log.txt.
EarlierLog == << [now |-> 0, text |-> "Copied", path |-> << << "a" >> >>] >>

\* The process before __main__ runs, over trees of at most n entries. A path
\* that does not exist has no tree under it and no log file in it.
InitWith(n) ==
    /\ args \in [original_path : BOOLEAN, synchronized_path : BOOLEAN,
                 log_path : BOOLEAN, interval : BOOLEAN]
    /\ src \in IF args.original_path THEN TreesUpTo(n, SrcContents)
               ELSE { EmptyTree }
    /\ dst \in IF args.synchronized_path THEN TreesUpTo(n, DstContents)
               ELSE { EmptyTree }
    /\ pc = "main"
    /\ pass = 0
    /\ S = {}
    /\ D = {}
    /\ actions = NoActions
    /\ todo = << >>
    /\ err = "none"
    /\ raised_at = "none"
    /\ log \in IF args.log_path THEN { << >>, EarlierLog } ELSE { << >> }
    /\ stdout = << >>
    /\ dst0 = dst

Init == InitWith(MaxEntries)

\* Mutant of valid_folder: any path is accepted.
AnyFolder(exists) == TRUE

\* valid_folder: accepts a path that exists.
valid_folder(exists) == exists

\* type = int: accepts an interval that reads as an integer.
int(parses) == parses

\* parser.parse_args(): every argument is accepted.
parse_args ==
    /\ valid_folder(args.original_path)
    /\ valid_folder(args.synchronized_path)
    /\ valid_folder(args.log_path)
    /\ int(args.interval)

\* __main__: the arguments are parsed, and either the loop is entered or the
\* process exits with a usage message.
Main ==
    /\ pc = "main"
    /\ pc' = IF parse_args THEN "start" ELSE "exited"
    /\ UNCHANGED << src, dst, pass, S, D, actions, todo, err, raised_at, log, stdout,
                    dst0, args >>

\* Mutants of the classification: every source path counted as copied; every
\* destination path counted as removed.
CopiedAll(s, d) == s
RemovedAll(s, d) == d

\* The three classes of relative paths, from the two enumerated sets.
Created(s, d) == s \ d
Removed(s, d) == d \ s
Copied(s, d) == s \cap d

\* Mutant of Crash: the exception is swallowed and the loop goes on.
CrashSwallowed(r) ==
    /\ dst' = r.t
    /\ todo' = Tail(todo)
    /\ UNCHANGED << src, pc, pass, S, D, actions, err, raised_at, log, stdout, dst0, args >>

\* Mutant of Crash: sync_log.txt was opened for writing before the pass ran.
CrashTruncates(r) ==
    /\ dst' = r.t
    /\ pc' = "crashed"
    /\ err' = r.err
    /\ raised_at' = pc
    /\ log' = << >>
    /\ UNCHANGED << src, pass, S, D, actions, todo, stdout, dst0, args >>

\* The unhandled exception of outcome r ends the process.
Crash(r) ==
    /\ dst' = r.t
    /\ pc' = "crashed"
    /\ err' = r.err
    /\ raised_at' = pc
    /\ UNCHANGED << src, pass, S, D, actions, todo, log, stdout, dst0, args >>

\* Mutant of Applied: the operation is applied under original_path.
AppliedToSource(r) ==
    /\ src' = r.t
    /\ todo' = Tail(todo)
    /\ UNCHANGED << dst, pc, pass, S, D, actions, err, raised_at, log, stdout, dst0, args >>

\* The loop body went on to the next entry of its list.
Applied(r) ==
    /\ dst' = r.t
    /\ todo' = Tail(todo)
    /\ UNCHANGED << src, pc, pass, S, D, actions, err, raised_at, log, stdout, dst0, args >>

\* synchronization_loop prints the start line and calls synchronize_folders,
\* which lists both trees and classifies the relative paths.
StartPass ==
    /\ pc = "start"
    /\ pass < MaxPasses
    /\ pass' = pass + 1
    /\ stdout' = << [now |-> pass + 1, text |-> "Started synchronization"] >>
    /\ S' = Enumerate(src)
    /\ D' = Enumerate(dst)
    /\ \E cr \in Lists(Created(S', D')), rm \in Lists(Removed(S', D')),
          cp \in Lists(Copied(S', D')) :
          /\ actions' = [created |-> cr, removed |-> rm, copied |-> cp]
          /\ todo' = SortedAscending(cr)
    /\ dst0' = dst
    /\ pc' = "create"
    /\ UNCHANGED << src, dst, err, raised_at, log, args >>

\* One turn of the loop over the created paths.
CreateOne(t, p) == IF IsDir(src, p) THEN Makedirs(t, p, FALSE) ELSE Copy2(src[p], t, p)

CreateStep ==
    /\ pc = "create"
    /\ todo # << >>
    /\ LET r == CreateOne(dst, Head(todo))
       IN  IF r.err = "ok" THEN Applied(r) ELSE Crash(r)

\* Mutant of CreateDone: the copy loop starts while paths are left to create.
CreateDoneEarly ==
    /\ pc = "create"
    /\ pc' = "copy"
    /\ todo' = TopLevel(actions.copied)
    /\ UNCHANGED << src, dst, pass, S, D, actions, err, raised_at, log, stdout, dst0, args >>

\* The loop over the created paths is over; the copied paths of depth 1 follow.
CreateDone ==
    /\ pc = "create"
    /\ todo = << >>
    /\ pc' = "copy"
    /\ todo' = TopLevel(actions.copied)
    /\ UNCHANGED << src, dst, pass, S, D, actions, err, raised_at, log, stdout, dst0, args >>

\* Mutant of CopyOne: a directory is made, not copied with what it holds.
CopyOneShallow(t, p) == IF IsDir(src, p) THEN Makedirs(t, p, TRUE) ELSE Copy2(src[p], t, p)

\* One turn of the loop over the copied paths of depth 1.
CopyOne(t, p) == IF IsDir(src, p) THEN Copytree(src, t, p) ELSE Copy2(src[p], t, p)

CopyStep ==
    /\ pc = "copy"
    /\ todo # << >>
    /\ LET r == CopyOne(dst, Head(todo))
       IN  IF r.err = "ok" THEN Applied(r) ELSE Crash(r)

\* The loop over the copied paths is over; the removed paths follow.
CopyDone ==
    /\ pc = "copy"
    /\ todo = << >>
    /\ pc' = "remove"
    /\ todo' = SortedDescending(actions.removed)
    /\ UNCHANGED << src, dst, pass, S, D, actions, err, raised_at, log, stdout, dst0, args >>

\* Mutant of RemoveOne: directories are left in place.
RemoveOneFilesOnly(t, p) == IF ~IsDir(t, p) THEN Remove(t, p) ELSE Ok(t)

\* One turn of the loop over the removed paths.
RemoveOne(t, p) == IF ~IsDir(t, p) THEN Remove(t, p) ELSE Rmdir(t, p)

RemoveStep ==
    /\ pc = "remove"
    /\ todo # << >>
    /\ LET r == RemoveOne(dst, Head(todo))
       IN  IF r.err = "ok" THEN Applied(r) ELSE Crash(r)

\* synchronize_folders returns its dictionary.
RemoveDone ==
    /\ pc = "remove"
    /\ todo = << >>
    /\ pc' = "log"
    /\ UNCHANGED << src, dst, pass, S, D, actions, todo, err, raised_at, log, stdout, dst0, args >>

\* Mutant of LogTruncate: the file is not emptied.
LogKept ==
    /\ pc = "log"
    /\ pc' = "append"
    /\ UNCHANGED << src, dst, pass, S, D, actions, todo, err, raised_at, log, stdout, dst0, args >>

\* log_and_print_actions opens sync_log.txt for writing and closes it.
LogTruncate ==
    /\ pc = "log"
    /\ log' = << >>
    /\ pc' = "append"
    /\ UNCHANGED << src, dst, pass, S, D, actions, todo, err, raised_at, stdout, dst0, args >>

\* str.capitalize on the keys of the dictionary.
Capitalize(k) ==
    CASE k = "created" -> "Created"
      [] k = "removed" -> "Removed"
      [] k = "copied" -> "Copied"

\* Mutant of Keys: the keys in the order the loops run.
KeysInApplyOrder == << "created", "copied", "removed" >>

\* The keys of the dictionary in the order they were inserted.
Keys == << "created", "removed", "copied" >>

\* Mutant of LinesOf: of the copied paths, those of depth 1 only.
LinesOfVisited(k) ==
    LET l == IF k = "copied" THEN TopLevel(actions[k]) ELSE actions[k]
    IN  [i \in 1..Len(l) |-> [now |-> pass, text |-> Capitalize(k), path |-> l[i]]]

\* The lines log_and_print produces for one key.
LinesOf(k) == [i \in 1..Len(actions[k]) |->
                 [now |-> pass, text |-> Capitalize(k), path |-> actions[k][i]]]

\* The lines log_and_print produces: key by key, path by path.
RECURSIVE LinesFrom(_)
LinesFrom(i) == IF i > Len(Keys) THEN << >> ELSE LinesOf(Keys[i]) \o LinesFrom(i + 1)
Lines == LinesFrom(1)

\* log_and_print appends the lines to the file and prints them; the loop
\* prints the completion line.
LogAppend ==
    /\ pc = "append"
    /\ log' = log \o Lines
    /\ stdout' = stdout \o Lines
                   \o << [now |-> pass, text |-> "Synchronization complete"] >>
    /\ pc' = "sleep"
    /\ UNCHANGED << src, dst, pass, S, D, actions, todo, err, raised_at, dst0, args >>

\* Mutant of Sleep: the loop is left after the pass.
SleepAndStop ==
    /\ pc = "sleep"
    /\ pc' = "done"
    /\ UNCHANGED << src, dst, pass, S, D, actions, todo, err, raised_at, log, stdout, dst0, args >>

\* sleep(synchronization_interval_seconds), then the next turn of the loop.
Sleep ==
    /\ pc = "sleep"
    /\ pc' = "start"
    /\ UNCHANGED << src, dst, pass, S, D, actions, todo, err, raised_at, log, stdout, dst0, args >>

Next ==
    \/ Main
    \/ StartPass
    \/ CreateStep
    \/ CreateDone
    \/ CopyStep
    \/ CopyDone
    \/ RemoveStep
    \/ RemoveDone
    \/ LogTruncate
    \/ LogAppend
    \/ Sleep

Spec == Init /\ [][Next]_vars

\* The single thread always runs its next statement, and sleep returns.
\* Progress of the loop is followed over trees one entry smaller.
LiveInit == InitWith(MaxEntries - 1)
LiveSpec == LiveInit /\ [][Next]_vars /\ WF_vars(Next)

\* ------------------------------------------------------------ properties
\* synchronize_folders has returned from the pass counted by pass.
PassCompleted == pc \in { "log", "append", "sleep" } \/ (pc = "start" /\ pass > 0)

\* The pass counted by pass has classified its paths.
Classified == pass > 0

\* Every path the two trees share is a directory in both or a file in both.
SameKind(s, d) == \A p \in DOMAIN s \cap DOMAIN d : (s[p] = "dir") <=> (d[p] = "dir")

\* The part of a tree that has no hidden name on its paths.
VisiblePart(t) == [p \in Enumerate(t) |-> t[p]]

\* C1 as stated: after a completed pass over trees whose shared paths agree
\* in kind, the destination has exactly the paths of the source, with the
\* same kinds and the same file contents.
C1_Original == (PassCompleted /\ SameKind(src, dst0)) => dst = src

\* C1 as amended: after a completed pass over trees whose shared paths agree
\* in kind, the destination has exactly the source's paths that have no
\* hidden name on them, each of the kind and, for a file, of the content it
\* has in the source.
C1_VisibleConverges ==
    (PassCompleted /\ SameKind(src, dst0)) => VisiblePart(dst) = VisiblePart(src)

\* C1's case: a pass has completed that created an entry and overwrote a
\* stale file, and left the two visible parts equal.
C1_Witness ==
    /\ PassCompleted /\ pass = 1
    /\ SameKind(src, dst0)
    /\ \E p \in DOMAIN src \cap DOMAIN dst0 : src[p] # "dir" /\ dst0[p] # src[p]
    /\ actions.created # << >>
    /\ VisiblePart(dst) = VisiblePart(src)

\* A further case of C1: a pass has completed that removed an entry and
\* created one of depth 2.
C1_WitnessRemoval ==
    /\ PassCompleted /\ pass = 1
    /\ SameKind(src, dst0)
    /\ actions.removed # << >>
    /\ \E p \in DOMAIN src : Depth(p) = 2 /\ p \notin DOMAIN dst0 /\ p \in DOMAIN dst

\* C2: the returned dictionary splits the enumerated paths: created = S \ D,
\* removed = D \ S, copied = S \cap D, pairwise disjoint, together S \cup D,
\* where S and D are the enumerations of the source and of the destination
\* as the pass found them.
C2_Partition ==
    Classified =>
      LET cr == Range(actions.created)
          rm == Range(actions.removed)
          cp == Range(actions.copied)
      IN  /\ S = Enumerate(src) /\ D = Enumerate(dst0)
          /\ cr = S \ D /\ rm = D \ S /\ cp = S \cap D
          /\ cr \cap rm = {} /\ cr \cap cp = {} /\ rm \cap cp = {}
          /\ cr \cup rm \cup cp = S \cup D

\* C2's case: a classification with all three classes inhabited.
C2_Witness ==
    /\ pc = "create"
    /\ actions.created # << >> /\ actions.removed # << >> /\ actions.copied # << >>

\* A path that is a regular file in s and a directory in d.
FileOverDir(s, d) == { p \in Enumerate(s) \cap Enumerate(d) : s[p] # "dir" /\ d[p] = "dir" }

\* C3 as stated: the pass that follows a completed pass creates nothing and
\* removes nothing.
C3_Original == pass >= 2 => (actions.created = << >> /\ actions.removed = << >>)

\* C3 as amended: the pass that follows a completed pass creates nothing and
\* removes nothing, provided no path the trees share is a regular file in
\* the source and a directory in the destination.
C3_SecondPassQuiet ==
    (pass >= 2 /\ FileOverDir(src, dst0) = {}) =>
        (actions.created = << >> /\ actions.removed = << >>)

\* C3's case: a second pass after a first one that created and removed.
C3_Witness ==
    /\ pass = 2 /\ pc = "create"
    /\ FileOverDir(src, dst0) = {}
    /\ actions.copied # << >>
    /\ log # << >>
    /\ \E i \in 1..Len(log) : log[i].text = "Created"
    /\ \E i \in 1..Len(log) : log[i].text = "Removed"

\* C4: the loop over the created paths visits them by ascending depth, and
\* the parent of the path it is about to create is the root or exists in the
\* destination; the loop never fails for a missing parent.
C4_ParentExists ==
    /\ pc = "create" =>
         /\ \A i, j \in 1..Len(todo) : i < j => Depth(todo[i]) <= Depth(todo[j])
         /\ todo # << >> => Exists(dst, Parent(Head(todo)))
    /\ raised_at = "create" => err # "FileNotFoundError"

\* C4's case: an entry of depth 2 is about to be created inside a directory
\* the same loop created before it.
C4_Witness ==
    /\ pc = "create" /\ todo # << >>
    /\ Depth(Head(todo)) = 2
    /\ Parent(Head(todo)) \notin DOMAIN dst0
    /\ Parent(Head(todo)) \in DOMAIN dst

\* C5 as stated: the loop over the removed paths visits them by descending
\* depth, and a directory it is about to remove holds nothing.
C5_Original ==
    pc = "remove" =>
      /\ \A i, j \in 1..Len(todo) : i < j => Depth(todo[i]) >= Depth(todo[j])
      /\ (todo # << >> /\ IsDir(dst, Head(todo))) => Children(dst, Head(todo)) = {}

\* The outcome of the loop turn that is about to run.
TurnOutcome ==
    CASE pc = "create" -> CreateOne(dst, Head(todo))
      [] pc = "copy" -> CopyOne(dst, Head(todo))
      [] pc = "remove" -> RemoveOne(dst, Head(todo))

\* The loop turn that is about to run raises.
Failing == pc \in { "create", "copy", "remove" } /\ todo # << >> /\ TurnOutcome.err # "ok"

LastLogged == IF pc \in { "main", "exited", "sleep", "start" } THEN pass ELSE pass - 1

\* C7: sync_log.txt holds lines of the last logged pass only, and after a
\* completed pass exactly the lines of that pass.
C7_OnlyLastPass ==
    /\ \A i \in 1..Len(log) : log[i].now = LastLogged
    /\ pc = "sleep" => log = Lines

\* C7's case: the second pass has been logged after a first pass that wrote
\* lines of its own.
C7_Witness ==
    /\ pc = "sleep" /\ pass = 2
    /\ \E i \in 1..Len(log) : log[i].text = "Copied"

\* The action lines among the printed lines.
ActionLines(out) == LET Test(l) == "path" \in DOMAIN l IN SelectSeq(out, Test)

\* The lines of l come category by category, in the order rank gives.
OrderedBy(l, rank) == \A i, j \in 1..Len(l) : i < j => rank[l[i].text] <= rank[l[j].text]

ApplyRank == [Created |-> 1, Copied |-> 2, Removed |-> 3]
KeyRank == [Created |-> 1, Removed |-> 2, Copied |-> 3]

\* C8 as stated: the lines of a pass come as Created, then Copied, then
\* Removed, in the file and on standard output.
C8_Original ==
    pc = "sleep" => (OrderedBy(log, ApplyRank) /\ OrderedBy(ActionLines(stdout), ApplyRank))

\* C8 as amended: the lines of a pass come as Created, then Removed, then
\* Copied, in the file and on standard output, which carries the same lines
\* in the same order.
C8_KeyOrder ==
    pc = "sleep" =>
      /\ OrderedBy(log, KeyRank)
      /\ ActionLines(stdout) = log

\* C8's case: a logged pass with lines of all three categories.
C8_Witness ==
    /\ pc = "sleep"
    /\ \A c \in { "Created", "Removed", "Copied" } : \E i \in 1..Len(log) : log[i].text = c

\* C9 as stated: identical trees give three empty lists.
C9_Original == (Classified /\ src = dst0) => actions = NoActions

\* C9 as amended: identical trees give an empty created list and an empty
\* removed list, and a copied list that holds every enumerated path.
C9_IdenticalTrees ==
    (Classified /\ src = dst0) =>
      /\ actions.created = << >>
      /\ actions.removed = << >>
      /\ Range(actions.copied) = Enumerate(src)
      /\ Len(actions.copied) = Cardinality(Enumerate(src))

\* C9's case: identical trees of two enumerated entries, a file among them,
\* have been classified.
C9_Witness ==
    /\ pc = "create"
    /\ \E p \in DOMAIN src : src[p] # "dir"
    /\ src = dst0
    /\ Len(actions.copied) = 2

\* C10 as stated: every entry of either tree is enumerated, hidden or not.
C10_Original == Classified => (S = DOMAIN src /\ D = DOMAIN dst0)

\* C10 as amended: the entries enumerated are those with no hidden name on
\* their path; a hidden entry is in none of the three lists, and a hidden
\* entry of the destination is never removed.
C10_HiddenSkipped ==
    Classified =>
      /\ S = { p \in DOMAIN src : Visible(p) }
      /\ D = { p \in DOMAIN dst0 : Visible(p) }
      /\ \A k \in DOMAIN actions : \A p \in Range(actions[k]) : Visible(p)
      /\ \A p \in DOMAIN dst0 : ~Visible(p) => p \in DOMAIN dst

\* C10's case: a pass has completed over a source with a hidden entry it
\* did not create and a destination with a hidden entry it did not remove.
C10_Witness ==
    /\ PassCompleted
    /\ S # {}
    /\ \E p \in DOMAIN src : ~Visible(p) /\ p \notin DOMAIN dst
    /\ \E p \in DOMAIN dst0 : ~Visible(p) /\ p \notin DOMAIN src

BadArguments ==
    ~args.original_path \/ ~args.synchronized_path \/ ~args.log_path \/ ~args.interval

\* C12: with a missing path or a non-integer interval the process exits at
\* start-up: no pass starts, nothing is enumerated, the destination is not
\* touched, sync_log.txt is left as it was and nothing is printed.
C12_ExitsBeforeAnyPass ==
    BadArguments =>
      /\ pc \in { "main", "exited" }
      /\ pass = 0
      /\ S = {} /\ D = {} /\ actions = NoActions
      /\ dst = dst0
      /\ log \in { << >>, EarlierLog } /\ stdout = << >>

\* C12's case: the process has exited for a missing log folder although the
\* two trees exist and differ.
C12_Witness ==
    /\ pc = "exited"
    /\ ~args.log_path /\ args.original_path /\ args.synchronized_path /\ args.interval
    /\ Enumerate(src) # {} /\ Enumerate(dst) # {}
    /\ Enumerate(src) # Enumerate(dst)

\* The loop over the copied paths of the pass counted by pass is over.
AfterCopy ==
    \/ pc \in { "remove", "log", "append", "sleep" }
    \/ pc = "start" /\ pass > 0
    \/ pc = "crashed" /\ raised_at = "remove"

\* The copy loop visits copied paths of depth 1 only.
OnlyTopLevelVisited ==
    pc = "copy" => \A p \in Range(todo) : p \in Range(actions.copied) /\ Depth(p) = 1

\* C13: the copy loop visits copied paths of depth 1 only, and after it
\* every copied path of any depth that is a file on both sides has the
\* source's content in the destination.
C13_DeepFilesCovered ==
    /\ OnlyTopLevelVisited
    /\ AfterCopy => \A p \in Range(actions.copied) :
                       (src[p] # "dir" /\ dst0[p] # "dir") =>
                           (p \in DOMAIN dst /\ dst[p] = src[p])

\* C13's case: a stale file of depth 2 has the source's content after the
\* copy loop, which visited its directory only.
C13_Witness ==
    /\ pc = "remove" /\ pass = 1
    /\ \E p \in Range(actions.copied) :
          /\ Depth(p) = 2
          /\ src[p] # "dir" /\ dst0[p] # "dir" /\ dst0[p] # src[p]
          /\ dst[p] = src[p]

\* The paths of the Copied lines of l, in their order.
CopiedLogged(l) ==
    LET Test(x) == x.text = "Copied"
        c == SelectSeq(l, Test)
    IN  [i \in 1..Len(c) |-> c[i].path]

\* C14 as stated: the Copied lines of a pass are the copied paths of depth 1.
C14_Original ==
    pc = "sleep" => Range(CopiedLogged(log)) = Range(TopLevel(actions.copied))

\* C14 as amended: the Copied lines of a pass are the copied paths of every
\* depth, one line each, in the order of the copied list.
C14_AllCopiedLogged ==
    pc = "sleep" => CopiedLogged(log) = actions.copied

\* C14's case: a logged pass with a Copied line for a path of depth 2.
C14_Witness ==
    /\ pc = "sleep"
    /\ \E i \in 1..Len(log) : log[i].text = "Copied" /\ Depth(log[i].path) = 2

\* The moves from one step of the process to the next.
InOrder ==
    { << "main", "start" >>, << "main", "exited" >>,
      << "start", "create" >>,
      << "create", "create" >>, << "create", "copy" >>, << "create", "crashed" >>,
      << "copy", "copy" >>, << "copy", "remove" >>, << "copy", "crashed" >>,
      << "remove", "remove" >>, << "remove", "log" >>, << "remove", "crashed" >>,
      << "log", "append" >>, << "append", "sleep" >>, << "sleep", "start" >> }

\* C15: a pass enumerates and classifies, then creates, then copies, then
\* removes, then logs, then sleeps; a loop is left only when its list is
\* exhausted, the trees are listed only when a pass starts, the destination
\* changes only in the three loops, the log only after them, and a pass
\* starts only from start-up or from the sleep that follows logging.
C15_StepsInOrder ==
    [][ /\ << pc, pc' >> \in InOrder
        /\ (pc # pc' /\ pc \in { "create", "copy", "remove" } /\ pc' # "crashed")
               => todo = << >>
        /\ (pass' # pass \/ S' # S \/ D' # D \/ actions' # actions)
               => (pc = "start" /\ pass' = pass + 1)
        /\ dst' # dst => pc \in { "create", "copy", "remove" }
        /\ log' # log => pc \in { "log", "append" } ]_vars

\* C15's case: a pass that created, copied and removed has been logged and
\* the process sleeps.
C15_Witness ==
    /\ pc = "sleep" /\ pass = 1
    /\ actions.created # << >> /\ TopLevel(actions.copied) # << >> /\ actions.removed # << >>
    /\ dst # dst0
    /\ Len(log) = Len(actions.created) + Len(actions.copied) + Len(actions.removed)
    /\ stdout[Len(stdout)].text = "Synchronization complete"

\* The copied paths that are a directory in s and a regular file in d.
DirOverFile(s, d) == { p \in Enumerate(s) \cap Enumerate(d) : s[p] = "dir" /\ d[p] # "dir" }

\* C16 as stated: a pass over trees with a copied path that is a file on one
\* side and a directory on the other never completes.
C16_Original ==
    PassCompleted => (DirOverFile(src, dst0) = {} /\ FileOverDir(src, dst0) = {})

\* C16 as amended: a pass over trees with a copied path that is a directory
\* in the source and a regular file in the destination never completes; it
\* ends the process with an exception.
C16_DirOverFileFails ==
    /\ PassCompleted => DirOverFile(src, dst0) = {}
    /\ pc = "crashed" => (err # "none" /\ raised_at \in { "create", "copy", "remove" })

\* C16's case: the copy loop has raised on a directory whose destination
\* path is a regular file.
C16_Witness ==
    /\ pc = "crashed" /\ raised_at = "copy"
    /\ err = "FileExistsError"
    /\ todo # << >> /\ Head(todo) \in DirOverFile(src, dst0)

\* C17: the paths a pass has deleted from the destination are among its
\* removed paths; a path that is also in the source is never deleted; and
\* after the removal loop no path of D \ S is left in the destination.
C17_OnlyRemovedDeleted ==
    /\ (DOMAIN dst0 \ DOMAIN dst) \subseteq Range(actions.removed)
    /\ Range(actions.removed) \subseteq D \ S
    /\ \A p \in DOMAIN dst0 \cap DOMAIN src : p \in DOMAIN dst
    /\ PassCompleted => (D \ S) \cap DOMAIN dst = {}

\* C17's case: a pass has completed that kept a shared path and removed the
\* paths the source does not have.
C17_Witness ==
    /\ PassCompleted /\ pass = 1
    /\ actions.copied # << >> /\ actions.removed # << >>
    /\ DOMAIN dst0 \ DOMAIN dst = Range(actions.removed)
    /\ DOMAIN dst = DOMAIN src

\* C18: no step changes the source tree.
C18_SourceUntouched == [][src' = src]_vars

\* C18's case: a pass has failed part-way, after it changed the destination
\* of a source that has entries.
C18_Witness ==
    /\ pc = "crashed"
    /\ dst # dst0
    /\ DOMAIN src # {}
    /\ todo # << >>

\* C19: a pass that fails in one of its three loops leaves sync_log.txt as
\* the pass found it: no step from the start of a pass to its failure, and
\* none after it, truncates the file or writes to it.
C19_FailedPassNotLogged ==
    [][ (pc \in { "start", "create", "copy", "remove", "crashed" } \/ pc' = "crashed")
            => log' = log ]_vars

\* C19's case: a pass has failed after it changed the destination, and
\* sync_log.txt still holds the lines it held before, none of this pass.
C19_Witness ==
    /\ pc = "crashed"
    /\ dst # dst0
    /\ log # << >>
    /\ \A i \in 1..Len(log) : log[i].now < pass
====
